---- MODULE Spec2Model ----
(***************************************************************************)
(* Model of finance_calculator.py: the banded tax functions, the loan      *)
(* formula and its inverse, the net/gross salary converter (bisection),    *)
(* and the two projections the script computes from its widgets.           *)
(*                                                                         *)
(* Numbers.  The program computes in Python floats (IEEE-754 binary64).    *)
(* The model computes in exact arithmetic, on numbers built from sequences *)
(* of limbs so that no result depends on TLC's 32-bit integers.  The one   *)
(* place where binary64 rounding decides a returned value, the midpoint    *)
(* (low + high) / 2.0 of net_to_gross, is rounded to 53 significant bits,  *)
(* ties to even, as the hardware does.  Two forms of number are used:      *)
(*   - fixed-point numbers (operators Fx...), four 24-bit limbs over a     *)
(*     small denominator: the amounts of the tax functions and of the      *)
(*     bisection;                                                          *)
(*   - fractions of naturals of any size (operators R...): the loan        *)
(*     formulas and the script's other arithmetic.                         *)
(* An operator hands intermediate values on as arguments of a helper       *)
(* operator, so that each is written, and evaluated, once.                 *)
(***************************************************************************)
EXTENDS Integers, Sequences, FiniteSets, TLC

(***************************************************************************)
(* Naturals of any size: little-endian sequences of limbs in base 2^15,    *)
(* without high zero limbs (zero is the empty sequence).                   *)
(***************************************************************************)
Base == 2^15

Pow2(k) == 2^k

\* a without its high zero limbs
RECURSIVE NNorm(_)
NNorm(a) ==
    IF Len(a) = 0 THEN a
    ELSE IF a[Len(a)] # 0 THEN a
    ELSE NNorm(SubSeq(a, 1, Len(a) - 1))

NFromInt(i) ==
    IF i = 0 THEN <<>>
    ELSE IF i < Base THEN <<i>>
    ELSE IF i < Base * Base THEN <<i % Base, i \div Base>>
    ELSE <<i % Base, (i \div Base) % Base, i \div (Base * Base)>>

NLimb(a, i) == IF i >= 1 /\ i <= Len(a) THEN a[i] ELSE 0

\* -1, 0 or 1 as a < b, a = b, a > b, for a and b of one length, from limb i down
RECURSIVE NCmpFrom(_, _, _)
NCmpFrom(a, b, i) ==
    IF i = 0 THEN 0
    ELSE IF a[i] # b[i] THEN (IF a[i] < b[i] THEN -1 ELSE 1)
    ELSE NCmpFrom(a, b, i - 1)

NCmp(a, b) ==
    IF a = b THEN 0
    ELSE IF Len(a) # Len(b) THEN (IF Len(a) < Len(b) THEN -1 ELSE 1)
    ELSE NCmpFrom(a, b, Len(a))

\* the limbs of a + b from limb i on, x being the sum at limb i with its carry
RECURSIVE NAddC(_, _, _, _)
NAddC(a, b, i, x) ==
    IF i > Len(a) /\ i > Len(b) THEN (IF x = 0 THEN <<>> ELSE <<x>>)
    ELSE <<x % Base>> \o NAddC(a, b, i + 1, NLimb(a, i + 1) + NLimb(b, i + 1) + (x \div Base))

NAdd(a, b) ==
    IF Len(a) = 0 THEN b
    ELSE IF Len(b) = 0 THEN a
    ELSE NAddC(a, b, 1, a[1] + b[1])

\* the limbs of a - b (a >= b) from limb i on, x being the difference at limb i
\* with its borrow
RECURSIVE NSubC(_, _, _, _)
NSubC(a, b, i, x) ==
    IF i > Len(a) THEN <<>>
    ELSE <<x % Base>> \o NSubC(a, b, i + 1, NLimb(a, i + 1) - NLimb(b, i + 1) + (x \div Base))

NSub(a, b) == IF Len(b) = 0 THEN a ELSE NNorm(NSubC(a, b, 1, a[1] - b[1]))

\* a * m for a limb 0 <= m < Base
RECURSIVE NMulLimbC(_, _, _, _)
NMulLimbC(a, m, i, x) ==
    IF i > Len(a) THEN (IF x = 0 THEN <<>> ELSE <<x>>)
    ELSE <<x % Base>> \o NMulLimbC(a, m, i + 1, NLimb(a, i + 1) * m + (x \div Base))

NMulLimb(a, m) ==
    IF m = 0 \/ Len(a) = 0 THEN <<>>
    ELSE IF m = 1 THEN a
    ELSE NMulLimbC(a, m, 1, a[1] * m)

NShiftLimbs(a, w) ==
    IF Len(a) = 0 \/ w = 0 THEN a ELSE [i \in 1..w |-> 0] \o a

\* a * b from limb j of b on, acc being the sum so far (Len(acc) has the sum
\* evaluated before the next limb is begun)
RECURSIVE NMulAcc(_, _, _, _)
NMulAcc(a, b, j, acc) ==
    IF j > Len(b) \/ Len(acc) < 0 THEN acc
    ELSE NMulAcc(a, b, j + 1, NAdd(acc, NShiftLimbs(NMulLimb(a, b[j]), j - 1)))

NMul(a, b) ==
    IF Len(a) = 0 \/ Len(b) = 0 THEN <<>>
    ELSE IF b = <<1>> THEN a
    ELSE IF a = <<1>> THEN b
    ELSE IF Len(a) >= Len(b) THEN NMulAcc(a, b, 1, <<>>)
    ELSE NMulAcc(b, a, 1, <<>>)

\* a * 2^k
NShl(a, k) == NShiftLimbs(NMulLimb(a, Pow2(k % 15)), k \div 15)

\* floor(a / 2^k)
NShr(a, k) ==
    IF Len(a) <= k \div 15 THEN <<>>
    ELSE NNorm([i \in 1..(Len(a) - (k \div 15)) |->
                  (a[i + (k \div 15)] \div Pow2(k % 15))
                  + (NLimb(a, i + (k \div 15) + 1) % Pow2(k % 15)) * Pow2(15 - (k % 15))])

RECURSIVE IntBitLen(_)
IntBitLen(x) == IF x = 0 THEN 0 ELSE 1 + IntBitLen(x \div 2)

NBitLen(a) == IF Len(a) = 0 THEN 0 ELSE 15 * (Len(a) - 1) + IntBitLen(a[Len(a)])

NIsOdd(a) == Len(a) > 0 /\ a[1] % 2 = 1

NPowStep(a, k, sq) == IF k % 2 = 1 THEN NMul(sq, a) ELSE sq

NSquare(h) == NMul(h, h)

RECURSIVE NPow(_, _)
NPow(a, k) == IF k = 0 THEN <<1>> ELSE NPowStep(a, k, NSquare(NPow(a, k \div 2)))

RECURSIVE IntGcd(_, _)
IntGcd(a, b) == IF b = 0 THEN a ELSE IntGcd(b, a % b)

RECURSIVE IntTz(_)
IntTz(x) == IF x % 2 = 1 THEN 0 ELSE 1 + IntTz(x \div 2)

\* the number of trailing zero bits of a > 0, counted from limb i on
RECURSIVE NTzFrom(_, _)
NTzFrom(a, i) == IF a[i] # 0 THEN 15 * (i - 1) + IntTz(a[i]) ELSE NTzFrom(a, i + 1)

NTz(a) == NTzFrom(a, 1)

\* a > 0 without its trailing zero bits
NOddPart(a) == IF a[1] % 2 = 1 THEN a ELSE NShr(a, NTz(a))

NToInt(a) == NLimb(a, 1) + Base * NLimb(a, 2)

(***************************************************************************)
(* Fractions: [s, n, d, e] stands for s * n / (d * 2^e), with s the sign   *)
(* (-1, 0, 1), n and d naturals as above, d > 0, and e any integer.  RNorm *)
(* moves the powers of two of n and d into e and reduces small fractions,  *)
(* so a dyadic number (a binary64 value) has exactly one representation.   *)
(***************************************************************************)
Rat(s, n, d, e) == [s |-> s, n |-> n, d |-> d, e |-> e]

RZero == Rat(0, <<>>, <<1>>, 0)

RSmall(s, ni, di, e, g) == Rat(s, NFromInt(ni \div g), NFromInt(di \div g), e)

RReduceInts(s, ni, di, e) == RSmall(s, ni, di, e, IntGcd(ni, di))

\* s * n / (d * 2^e) for odd n and d
RReduce(s, n, d, e) ==
    IF d = <<1>> \/ Len(n) > 2 \/ Len(d) > 2 THEN Rat(s, n, d, e)
    ELSE RReduceInts(s, NToInt(n), NToInt(d), e)

RNorm(x) ==
    IF x.s = 0 \/ Len(x.n) = 0 THEN RZero
    ELSE RReduce(x.s, NOddPart(x.n), NOddPart(x.d), x.e + NTz(x.d) - NTz(x.n))

\* the fraction a / b of integers, b > 0
RFrac(a, b) ==
    IF a = 0 THEN RZero
    ELSE RNorm(Rat(IF a < 0 THEN -1 ELSE 1, NFromInt(IF a < 0 THEN -a ELSE a),
                   NFromInt(b), 0))

RInt(i) == RFrac(i, 1)

\* a * 2^j for integers a and j
RDyad(a, j) == [RInt(a) EXCEPT !.e = IF a = 0 THEN 0 ELSE @ - j]

RNeg(x) == [x EXCEPT !.s = -@]

Sign(x) == x.s

Abs(x) == [x EXCEPT !.s = @ * @]

\* the numerator of x over the denominator x.d * y.d * 2^e, for e >= x.e
RNumOver(x, y, e) == NShl(IF x.d = y.d THEN x.n ELSE NMul(x.n, y.d), e - x.e)

RDenOver(x, y) == IF x.d = y.d THEN x.d ELSE NMul(x.d, y.d)

RMaxE(x, y) == IF x.e >= y.e THEN x.e ELSE y.e

\* x + y from the numerators nx and ny over d * 2^e, c comparing nx with ny
RAddSigned(x, y, nx, ny, d, e, c) ==
    IF x.s = y.s THEN RNorm(Rat(x.s, NAdd(nx, ny), d, e))
    ELSE IF c = 0 THEN RZero
    ELSE RNorm(Rat(IF c > 0 THEN x.s ELSE y.s,
                   IF c > 0 THEN NSub(nx, ny) ELSE NSub(ny, nx), d, e))

RAddOver(x, y, nx, ny, d, e) == RAddSigned(x, y, nx, ny, d, e, NCmp(nx, ny))

RAddAt(x, y, e) == RAddOver(x, y, RNumOver(x, y, e), RNumOver(y, x, e), RDenOver(x, y), e)

RAdd(x, y) ==
    IF x.s = 0 THEN y
    ELSE IF y.s = 0 THEN x
    ELSE RAddAt(x, y, RMaxE(x, y))

RSub(x, y) == RAdd(x, RNeg(y))

RMul(x, y) ==
    IF x.s = 0 \/ y.s = 0 THEN RZero
    ELSE RNorm(Rat(x.s * y.s, NMul(x.n, y.n), NMul(x.d, y.d), x.e + y.e))

\* 1 / x for x # 0
RInv(x) == Rat(x.s, x.d, x.n, -x.e)

\* x / y for y # 0
RDiv(x, y) == RMul(x, RInv(y))

RCmpAt(x, y, e) == x.s * NCmp(RNumOver(x, y, e), RNumOver(y, x, e))

\* -1, 0 or 1 as x < y, x = y, x > y
RCmp(x, y) ==
    IF x.s # y.s THEN (IF x.s < y.s THEN -1 ELSE 1)
    ELSE IF x.s = 0 THEN 0
    ELSE RCmpAt(x, y, RMaxE(x, y))

RLt(x, y) == RCmp(x, y) < 0
RLe(x, y) == RCmp(x, y) <= 0
REq(x, y) == RCmp(x, y) = 0

\* Python's max(x, y) and min(x, y): the second argument only when it wins
RMax(x, y) == IF RLt(x, y) THEN y ELSE x
RMin(x, y) == IF RLt(y, x) THEN y ELSE x

\* x ** j for an integer j >= 0 (Python: x ** 0 is 1 for every x)
RPow(x, j) ==
    IF j = 0 THEN RInt(1)
    ELSE IF x.s = 0 THEN RZero
    ELSE RNorm(Rat(IF x.s < 0 /\ j % 2 = 1 THEN -1 ELSE 1, NPow(x.n, j), NPow(x.d, j),
                   x.e * j))

(***************************************************************************)
(* Fixed-point numbers: [D, a0, a1, a2, a3] stands for                     *)
(*     (a0 + a1 * W + a2 * W^2 + a3 * W^3) / (D * 2^FracBits)              *)
(* with limbs 0 <= ai < W = 2^24.  Amounts of money have D = 1; a tax, a   *)
(* sum of amounts times rates in hundredths, has D = 100.  The 63          *)
(* fractional bits hold every midpoint that the 60 halvings of an interval *)
(* with whole-number ends produce.  A result outside this form is NoFit.   *)
(***************************************************************************)
W == 2^24

\* net_to_gross runs this many bisection steps
Iterations == 60

FracBits == Iterations + 3

NoFit == [D |-> 0, a0 |-> 0, a1 |-> 0, a2 |-> 0, a3 |-> 0]

FxTop(D, a0, a1, a2, t3) ==
    IF t3 < 0 \/ t3 >= W THEN NoFit
    ELSE [D |-> D, a0 |-> a0, a1 |-> a1, a2 |-> a2, a3 |-> t3]

FxCarry2(D, a0, a1, t2, c3) == FxTop(D, a0, a1, t2 % W, c3 + (t2 \div W))

FxCarry1(D, a0, t1, c2, c3) == FxCarry2(D, a0, t1 % W, c2 + (t1 \div W), c3)

\* the number with limb sums c0..c3, carries and borrows propagated
Fx(D, c0, c1, c2, c3) == FxCarry1(D, c0 % W, c1 + (c0 \div W), c2, c3)

FxZero == [D |-> 1, a0 |-> 0, a1 |-> 0, a2 |-> 0, a3 |-> 0]

\* the whole number i >= 0
FxInt(i) == Fx(1, 0, 0, (i % 2^9) * 2^15, i \div 2^9)

\* a * 2^sh * W^q for 0 <= a < W, 0 <= sh < 24 and 0 <= q <= 2
FxPlace(lo, hi, q) ==
    Fx(1, IF q = 0 THEN lo ELSE 0,
          IF q = 1 THEN lo ELSE IF q = 0 THEN hi ELSE 0,
          IF q = 2 THEN lo ELSE IF q = 1 THEN hi ELSE 0,
          IF q = 2 THEN hi ELSE 0)

FxShifted(a, sh, q) == FxPlace((a % 2^(24 - sh)) * 2^sh, a \div 2^(24 - sh), q)

\* a / 2^j for 0 <= a < W and 0 <= j <= FracBits
FxDyad(a, j) == FxShifted(a, (FracBits - j) % 24, (FracBits - j) \div 24)

\* x * m over the denominator D, for 0 <= m <= 127
FxScaled(x, m, D) == Fx(D, x.a0 * m, x.a1 * m, x.a2 * m, x.a3 * m)

\* an amount in hundredths
FxCents(x) == FxScaled(x, 100, 100)

\* x + y and x - y for x and y of one denominator (NoFit when x < y)
FxAdd(x, y) ==
    IF x.D # y.D \/ x.D = 0 THEN NoFit
    ELSE Fx(x.D, x.a0 + y.a0, x.a1 + y.a1, x.a2 + y.a2, x.a3 + y.a3)

FxSub(x, y) ==
    IF x.D # y.D \/ x.D = 0 THEN NoFit
    ELSE Fx(x.D, x.a0 - y.a0, x.a1 - y.a1, x.a2 - y.a2, x.a3 - y.a3)

\* -1, 0 or 1 as x < y, x = y, x > y, for x and y of one denominator
FxCmp(x, y) ==
    IF x.a3 # y.a3 THEN (IF x.a3 < y.a3 THEN -1 ELSE 1)
    ELSE IF x.a2 # y.a2 THEN (IF x.a2 < y.a2 THEN -1 ELSE 1)
    ELSE IF x.a1 # y.a1 THEN (IF x.a1 < y.a1 THEN -1 ELSE 1)
    ELSE IF x.a0 # y.a0 THEN (IF x.a0 < y.a0 THEN -1 ELSE 1)
    ELSE 0

FxLt(x, y) == FxCmp(x, y) < 0
FxLe(x, y) == FxCmp(x, y) <= 0

\* Python's min(x, y) and max(x, y): the second argument only when it wins
FxMin(x, y) == IF FxLt(y, x) THEN y ELSE x
FxMax(x, y) == IF FxLt(x, y) THEN y ELSE x

\* x / 2.0 (the numerator of every x halved in the model is even)
FxHalf(x) ==
    IF x.a0 % 2 = 1 THEN NoFit
    ELSE [D |-> x.D,
          a0 |-> (x.a0 \div 2) + (x.a1 % 2) * (W \div 2),
          a1 |-> (x.a1 \div 2) + (x.a2 % 2) * (W \div 2),
          a2 |-> (x.a2 \div 2) + (x.a3 % 2) * (W \div 2),
          a3 |-> x.a3 \div 2]

FxBitLen(x) ==
    IF x.a3 # 0 THEN 72 + IntBitLen(x.a3)
    ELSE IF x.a2 # 0 THEN 48 + IntBitLen(x.a2)
    ELSE IF x.a1 # 0 THEN 24 + IntBitLen(x.a1)
    ELSE IntBitLen(x.a0)

\* x without its k < 24 low bits rem, rounded to the nearest, ties to even
FxRoundLimb0(x, k, rem) ==
    Fx(x.D, x.a0 - rem + (IF rem > 2^(k - 1)
                             \/ (rem = 2^(k - 1) /\ (x.a0 \div 2^k) % 2 = 1)
                          THEN 2^k ELSE 0),
       x.a1, x.a2, x.a3)

\* x without limb a0 and the j < 24 low bits rem of a1, rounded likewise
FxRoundLimb1(x, j, rem) ==
    Fx(x.D, 0,
       x.a1 - rem + (IF (IF j = 0
                         THEN x.a0 > W \div 2
                              \/ (x.a0 = W \div 2 /\ x.a1 % 2 = 1)
                         ELSE rem > 2^(j - 1)
                              \/ (rem = 2^(j - 1)
                                  /\ (x.a0 > 0 \/ (x.a1 \div 2^j) % 2 = 1)))
                     THEN 2^j ELSE 0),
       x.a2, x.a3)

FxRoundBits(x, k) ==
    IF k <= 0 THEN x
    ELSE IF k < 24 THEN FxRoundLimb0(x, k, x.a0 % 2^k)
    ELSE FxRoundLimb1(x, k - 24, x.a1 % 2^(k - 24))

\* binary64: an amount x rounded to 53 significant bits, ties to even
FxRoundDouble(x) == FxRoundBits(x, FxBitLen(x) - 53)

\* the limbs of the numerator in base 2^15
FxNum(x) ==
    NNorm(<< x.a0 % 2^15,
             (x.a0 \div 2^15) + (x.a1 % 2^6) * 2^9,
             (x.a1 \div 2^6) % 2^15,
             (x.a1 \div 2^21) + (x.a2 % 2^12) * 2^3,
             (x.a2 \div 2^12) + (x.a3 % 2^3) * 2^12,
             (x.a3 \div 2^3) % 2^15,
             x.a3 \div 2^18 >>)

\* the fixed-point number x as a fraction
ToR(x) == RNorm(Rat(1, FxNum(x), NFromInt(x.D), FracBits))

(***************************************************************************)
(* Banded taxes.  A band is (low, high, rate), its rate in hundredths;     *)
(* float("inf") is the largest fixed-point number.  The arguments are      *)
(* amounts >= 0 (a price, a salary, a midpoint of the bisection).          *)
(***************************************************************************)
INF == [D |-> 1, a0 |-> W - 1, a1 |-> W - 1, a2 |-> W - 1, a3 |-> W - 1]

Band(low, high, rate) == [low |-> FxInt(low), high |-> FxInt(high), rate |-> rate]

TopBand(low, rate) == [low |-> FxInt(low), high |-> INF, rate |-> rate]

TAX_BANDS == << Band(0, 12570, 0), Band(12570, 50270, 20), Band(50270, 125140, 40),
                TopBand(125140, 45) >>

NIC_PT == 12570

NIC_UEL == 50270

NIC_RATES == << Band(NIC_PT, NIC_UEL, 12), TopBand(NIC_UEL, 2) >>

SDLT_BANDS == << Band(0, 125000, 0), Band(125000, 250000, 2), Band(250000, 925000, 5),
                 Band(925000, 1500000, 10), TopBand(1500000, 12) >>

\* 0.0 as a tax
NoTax == [D |-> 100, a0 |-> 0, a1 |-> 0, a2 |-> 0, a3 |-> 0]

\* taxable * rate, for taxable = min(amount, high) - low
BandTax(amount, band) ==
    FxScaled(FxSub(FxMin(amount, band.high), band.low), band.rate, 100)

\* the loop of compute_income_tax from band i on, tax being the sum so far
RECURSIVE income_tax_loop(_, _, _)
income_tax_loop(gross, i, tax) ==
    IF i > Len(TAX_BANDS) THEN tax
    ELSE IF FxLe(gross, TAX_BANDS[i].low) THEN tax
    ELSE IF FxLe(gross, TAX_BANDS[i].high)
         THEN FxAdd(tax, BandTax(gross, TAX_BANDS[i]))
    ELSE income_tax_loop(gross, i + 1, FxAdd(tax, BandTax(gross, TAX_BANDS[i])))

compute_income_tax(gross) == FxMax(NoTax, income_tax_loop(gross, 1, NoTax))

\* a faulty NIC: only the highest band that gross reaches is charged
compute_nic_top_band(gross) ==
    IF FxLe(gross, NIC_RATES[1].low) THEN NoTax
    ELSE IF FxLe(gross, NIC_RATES[2].low) THEN BandTax(gross, NIC_RATES[1])
    ELSE BandTax(gross, NIC_RATES[2])

\* the loop of compute_nic: a band at or above gross is skipped, not the rest
RECURSIVE nic_loop(_, _, _)
nic_loop(gross, i, nic) ==
    IF i > Len(NIC_RATES) THEN nic
    ELSE IF FxLe(gross, NIC_RATES[i].low) THEN nic_loop(gross, i + 1, nic)
    ELSE nic_loop(gross, i + 1, FxAdd(nic, BandTax(gross, NIC_RATES[i])))

compute_nic(gross) == FxMax(NoTax, nic_loop(gross, 1, NoTax))

\* a faulty transfer tax: the whole price is charged at the rate of its band
RECURSIVE sdlt_whole_price_loop(_, _)
sdlt_whole_price_loop(price, i) ==
    IF i = Len(SDLT_BANDS) \/ FxLe(price, SDLT_BANDS[i].high)
    THEN FxScaled(price, SDLT_BANDS[i].rate, 100)
    ELSE sdlt_whole_price_loop(price, i + 1)

compute_sdlt_whole_price(price) == sdlt_whole_price_loop(price, 1)

RECURSIVE sdlt_loop(_, _, _)
sdlt_loop(price, i, tax) ==
    IF i > Len(SDLT_BANDS) THEN tax
    ELSE IF FxLe(price, SDLT_BANDS[i].low) THEN tax
    ELSE IF FxLe(price, SDLT_BANDS[i].high)
         THEN FxAdd(tax, BandTax(price, SDLT_BANDS[i]))
    ELSE sdlt_loop(price, i + 1, FxAdd(tax, BandTax(price, SDLT_BANDS[i])))

compute_sdlt(price) == sdlt_loop(price, 1, NoTax)

(***************************************************************************)
(* Net and gross salary.                                                   *)
(***************************************************************************)
net_tax_nic(gross, tax, nic) ==
    [net |-> FxSub(FxSub(FxCents(gross), tax), nic), tax |-> tax, nic |-> nic]

gross_to_net(gross) == net_tax_nic(gross, compute_income_tax(gross), compute_nic(gross))

\* a faulty midpoint: the exact mean, the sum not rounded to binary64
midpoint_unrounded(low, high) == FxHalf(FxAdd(low, high))

\* (low + high) / 2.0: the sum is rounded to binary64, its half is exact
midpoint(low, high) == FxHalf(FxRoundDouble(FxAdd(low, high)))

\* a faulty branch: the halves of the interval exchanged
bisect_branch_exchanged(low, high, mid, target_net) ==
    IF RLt(ToR(gross_to_net(mid).net), target_net)
    THEN [low |-> low, high |-> mid]
    ELSE [low |-> mid, high |-> high]

\* the branch of one bisection step; target_net is a fraction
bisect_branch(low, high, mid, target_net) ==
    IF RLt(ToR(gross_to_net(mid).net), target_net)
    THEN [low |-> mid, high |-> high]
    ELSE [low |-> low, high |-> mid]

\* one pass of the loop body
bisect_step(low, high, target_net) ==
    bisect_branch(low, high, midpoint(low, high), target_net)

\* k passes of the loop from the interval b: the first half of the passes is
\* evaluated (h = h) before the second half is begun
RECURSIVE bisect(_, _, _)
bisect_on(h, target_net, k) == IF h = h THEN bisect(h, target_net, k) ELSE h

bisect(b, target_net, k) ==
    IF k = 0 THEN b
    ELSE IF k = 1 THEN bisect_step(b.low, b.high, target_net)
    ELSE bisect_on(bisect(b, target_net, k \div 2), target_net, k - (k \div 2))

gross_net_tax_nic(gross, t) == [gross |-> gross, net |-> t.net, tax |-> t.tax, nic |-> t.nic]

gross_at(gross) == gross_net_tax_nic(gross, gross_to_net(gross))

\* what net_to_gross returns once the loop has left the interval b
net_to_gross_result(b) == gross_at(midpoint(b.low, b.high))

net_to_gross(target_net, guess_low, guess_high) ==
    net_to_gross_result(bisect([low |-> guess_low, high |-> guess_high], target_net,
                               Iterations))

(***************************************************************************)
(* Loan mathematics, on fractions.  A division by zero gives the value     *)
(* ZeroDivisionError; the caller's run ends there.                         *)
(***************************************************************************)
ZeroDivisionError == [raised |-> "ZeroDivisionError"]

IsRaised(x) == "raised" \in DOMAIN x

ROne == RInt(1)

\* principal * (r * qn) / (qn - 1) for qn = (1 + r) ** n
annuity(principal, r, qn) ==
    IF REq(qn, ROne) THEN ZeroDivisionError
    ELSE RDiv(RMul(principal, RMul(r, qn)), RSub(qn, ROne))

payment_at(principal, r, n) ==
    IF Sign(r) = 0 THEN RDiv(principal, RInt(n))
    ELSE annuity(principal, r, RPow(RAdd(ROne, r), n))

\* annual_rate_percent / 100.0 / 12.0
monthly_rate(annual_rate_percent) == RDiv(RDiv(annual_rate_percent, RInt(100)), RInt(12))

\* a faulty payment: simple interest, principal * (1 + r * n) / n
monthly_payment_simple_interest(principal, annual_rate_percent, years) ==
    IF RLe(principal, RZero) \/ years <= 0 THEN RZero
    ELSE RDiv(RMul(principal,
                   RAdd(ROne, RMul(monthly_rate(annual_rate_percent), RInt(years * 12)))),
              RInt(years * 12))

monthly_payment(principal, annual_rate_percent, years) ==
    IF RLe(principal, RZero) \/ years <= 0 THEN RZero
    ELSE payment_at(principal, monthly_rate(annual_rate_percent), years * 12)

\* (1 + r) ** (-n) for n >= 0
discount(q, n) ==
    IF n = 0 THEN ROne
    ELSE IF Sign(q) = 0 THEN ZeroDivisionError
    ELSE RInv(RPow(q, n))

principal_of(payment, r, d) ==
    IF IsRaised(d) THEN d ELSE RDiv(RMul(payment, RSub(ROne, d)), r)

\* the loan that the monthly payment pays off: the inverse of monthly_payment
max_principal(payment, r, n) ==
    IF Sign(r) = 0 THEN RMul(payment, RInt(n))
    ELSE principal_of(payment, r, discount(RAdd(ROne, r), n))

(***************************************************************************)
(* The script.  A run binds its names one after another in a record g that *)
(* starts as the widgets' values; a raised error is kept in g.raised and   *)
(* ends the run, the later names staying unbound.  The two projection      *)
(* functions read the names bound before they are called.                  *)
(***************************************************************************)
\* name = v, when no error was raised before and v is a value
Bind(g, name, v) ==
    IF g.raised # "" THEN g
    ELSE IF IsRaised(v) THEN [g EXCEPT !.raised = v.raised]
    ELSE g @@ (name :> v)

\* a faulty deposit: always the percentage of the price
deposit_by_percent(g) == RDiv(RMul(RInt(g.price), RInt(g.deposit_pct)), RInt(100))

deposit(g) ==
    IF g.deposit_amt > 0 THEN RInt(g.deposit_amt)
    ELSE RDiv(RMul(RInt(g.price), RInt(g.deposit_pct)), RInt(100))

loan_amount(g) == RMax(RZero, RSub(RInt(g.price), g.deposit))

sdlt(g) ==
    IF g.mode = "House" /\ g.show_sdlt THEN compute_sdlt(FxInt(g.price)) ELSE NoTax

annual_maintenance(g) == RMul(RInt(g.price), RDiv(g.maintenance_pct, RInt(100)))

gross_from_net_simple(g) ==
    IF g.effective_tax_rate > 0 /\ g.effective_tax_rate < 100
    THEN RDiv(RInt(g.net_monthly_salary * 12),
              RSub(ROne, RFrac(g.effective_tax_rate, 100)))
    ELSE RInt(g.net_monthly_salary * 12)

required_gross_for_affordability(net_monthly_required) ==
    net_to_gross(RMul(net_monthly_required, RInt(12)), FxZero, FxInt(2000000))

\* a faulty sum: the maintenance left out of the required net
required_net_monthly_bare(g) ==
    RAdd(RAdd(RAdd(g.monthly_pay, RInt(g.monthly_overheads)), RInt(g.monthly_expenses)),
         RInt(g.insurance_monthly))

required_net_monthly(g) ==
    RAdd(RAdd(RAdd(RAdd(g.monthly_pay, RInt(g.monthly_overheads)),
                   RInt(g.monthly_expenses)),
              g.monthly_maintenance),
         RInt(g.insurance_monthly))

gross_by_afford_simple(g, required) ==
    IF g.effective_tax_rate < 100
    THEN RDiv(RMul(required, RInt(12)), RSub(ROne, RFrac(g.effective_tax_rate, 100)))
    ELSE RZero

\* the dictionary salary_projection_methods returns
sp_dict(g, required, n2g) ==
    [gross_by_lti |-> IF Sign(g.lti) > 0 THEN RDiv(g.loan_amount, g.lti) ELSE RZero,
     gross_by_afford |-> ToR(n2g.gross),
     gross_by_afford_simple |-> gross_by_afford_simple(g, required),
     required_net_monthly |-> required,
     tax_calc |-> n2g.tax, nic_calc |-> n2g.nic]

sp_for(g, required) == sp_dict(g, required, required_gross_for_affordability(required))

salary_projection_methods(g) == sp_for(g, required_net_monthly(g))

available_for_mortgage_monthly(g) ==
    RMax(RZero,
         RSub(RInt(g.net_monthly_salary),
              RAdd(RAdd(RAdd(RInt(g.monthly_overheads), RInt(g.monthly_expenses)),
                        g.monthly_maintenance),
                   RInt(g.insurance_monthly))))

\* a faulty choice: the larger of the two caps
mortgage_affordable_larger(mortgage_by_lti, mortgage_by_payment) ==
    RMax(mortgage_by_lti, mortgage_by_payment)

mortgage_affordable(mortgage_by_lti, mortgage_by_payment) ==
    RMin(mortgage_by_lti, mortgage_by_payment)

denom(g) ==
    IF g.deposit_amt = 0 THEN RSub(ROne, RFrac(g.deposit_pct, 100))
    ELSE IF g.price > 0 THEN RDiv(g.loan_amount, RInt(g.price))
    ELSE RZero

price_affordable(g, affordable) ==
    IF g.deposit_amt > 0 THEN RAdd(affordable, RInt(g.deposit_amt))
    ELSE IF RLe(denom(g), RZero) THEN affordable
    ELSE IF g.deposit_pct = 100 THEN ZeroDivisionError
    ELSE RDiv(affordable, RSub(ROne, RFrac(g.deposit_pct, 100)))

\* the dictionary affordability_projection_methods returns
ap_dict(g, n2g, by_lti, available, by_payment, affordable, price) ==
    IF IsRaised(price) THEN price
    ELSE [gross_annual |-> ToR(n2g.gross), net_annual |-> n2g.net,
          mortgage_by_lti |-> by_lti, mortgage_by_payment |-> by_payment,
          mortgage_affordable |-> affordable, price_affordable |-> price,
          available_for_mortgage_monthly |-> available,
          tax_calc |-> n2g.tax, nic_calc |-> n2g.nic]

ap_priced(g, n2g, by_lti, available, by_payment, affordable) ==
    ap_dict(g, n2g, by_lti, available, by_payment, affordable,
            price_affordable(g, affordable))

ap_capped(g, n2g, by_lti, available, by_payment) ==
    IF IsRaised(by_payment) THEN by_payment
    ELSE ap_priced(g, n2g, by_lti, available, by_payment,
                   mortgage_affordable(by_lti, by_payment))

ap_paying(g, n2g, available) ==
    ap_capped(g, n2g, RMul(ToR(n2g.gross), g.lti), available,
              max_principal(available, monthly_rate(g.interest_rate), g.term_years * 12))

ap_for(g, n2g) == ap_paying(g, n2g, available_for_mortgage_monthly(g))

affordability_projection_methods(g) ==
    ap_for(g, net_to_gross(RInt(g.net_monthly_salary * 12), FxZero, FxInt(2000000)))

\* a faulty maximum: the smaller of the two estimates
gross_needed_smaller(sp) == RMin(sp.gross_by_lti, sp.gross_by_afford)

gross_needed(sp) == RMax(sp.gross_by_lti, sp.gross_by_afford)

SalaryProjection(g) == Bind(g, "gross_needed", gross_needed(g.sp))

Affordability(g) ==
    Bind(g, "monthly_for_affordable_loan",
         monthly_payment(g.ap.mortgage_affordable, g.interest_rate, g.term_years))

\* with col_out: the branch of the calculation type
Display(g) ==
    IF g.raised # "" THEN g
    ELSE IF g.calc_type = "Salary Projection"
    THEN SalaryProjection(Bind(g, "sp", salary_projection_methods(g)))
    ELSE Affordability(Bind(g, "ap", affordability_projection_methods(g)))

Estimates(g) ==
    IF g.raised # "" THEN g
    ELSE Bind(Bind(g, "monthly_maintenance", RDiv(g.annual_maintenance, RInt(12))),
              "gross_from_net_simple", gross_from_net_simple(g))

Costs(g) ==
    IF g.raised # "" THEN g
    ELSE Bind(Bind(g, "sdlt", sdlt(g)), "annual_maintenance", annual_maintenance(g))

Stress(g) ==
    IF g.raised # "" THEN g
    ELSE Bind(g, "monthly_pay_stress",
              monthly_payment(g.loan_amount, RAdd(g.interest_rate, g.stress_rate_shift),
                              g.term_years))

Payment(g) ==
    Bind(g, "monthly_pay", monthly_payment(g.loan_amount, g.interest_rate, g.term_years))

Loan(g) == Bind(g, "loan_amount", loan_amount(g))

Deposit(w) == Bind(w @@ [raised |-> ""], "deposit", deposit(w))

\* one run of the script, from the widgets' values w to the names it binds
Script(w) == Display(Estimates(Costs(Stress(Payment(Loan(Deposit(w)))))))

(***************************************************************************)
(* The session.  st.session_state is a function from the names stored in   *)
(* it to their values; the script stores the one name "scenarios", a list  *)
(* of dictionaries.  The state of a session outlives the runs of the       *)
(* script.                                                                 *)
(***************************************************************************)
\* the state of a session in which the script has not run yet
NewSession == [k \in {} |-> <<>>]

\* if "scenarios" not in st.session_state: st.session_state.scenarios = []
session_init(ss) == IF "scenarios" \in DOMAIN ss THEN ss ELSE ss @@ [scenarios |-> <<>>]

\* a faulty save: the entry is put at the head of the list
save_scenario_at_head(ss, s) == [ss EXCEPT !.scenarios = <<s>> \o @]

save_scenario(ss, s) == [ss EXCEPT !.scenarios = Append(@, s)]

\* the dictionary saved by the button of the Salary Projection branch
salary_scenario(g) ==
    [mode |-> g.mode, type |-> g.calc_type, price |-> g.price,
     deposit_pct |-> g.deposit_pct, deposit_amt |-> g.deposit_amt,
     term_years |-> g.term_years, interest_rate |-> g.interest_rate,
     monthly_pay |-> g.monthly_pay, gross_needed |-> g.gross_needed, sdlt |-> g.sdlt]

\* the dictionary saved by the button of the Affordability branch
affordability_scenario(g) ==
    [mode |-> g.mode, type |-> g.calc_type, net_monthly_salary |-> g.net_monthly_salary,
     deposit_pct |-> g.deposit_pct, deposit_amt |-> g.deposit_amt,
     term_years |-> g.term_years, interest_rate |-> g.interest_rate,
     price_affordable |-> g.ap.price_affordable,
     mortgage_affordable |-> g.ap.mortgage_affordable]

scenario(g) ==
    IF g.calc_type = "Salary Projection" THEN salary_scenario(g)
    ELSE affordability_scenario(g)

\* the Save scenario button of a run that ended with the names g, pressed or
\* not; a run that raised an error did not come to its button
SaveButton(g, ss, pressed) ==
    IF pressed /\ g.raised = "" THEN save_scenario(ss, scenario(g)) ELSE ss

(***************************************************************************)
(* State.  Each specification below uses some of the variables and leaves  *)
(* the others at Unused.                                                   *)
(***************************************************************************)
VARIABLES amount, taxes, conv, loan, widgets, out, edits, session_state

vars == <<amount, taxes, conv, loan, widgets, out, edits, session_state>>

Unused == [unused |-> TRUE]

(***************************************************************************)
(* SpecTax: compute_income_tax, compute_nic and compute_sdlt applied to    *)
(* two amounts a1 = amount[1] and a2 = amount[2].                          *)
(***************************************************************************)
\* amounts lie up to MaxOffset either side of a band edge
MaxOffset == 1

BandEdges == {0, NIC_PT, NIC_UEL, 125140, 125000, 250000, 925000, 1500000}

Half == FxDyad(1, 1)

AmountSet ==
    {FxInt(e + d) : e \in BandEdges, d \in 0..MaxOffset}
        \cup {FxInt(e - d) : e \in BandEdges \ {0}, d \in 1..MaxOffset}
        \cup {Half, FxAdd(FxInt(NIC_PT), Half), FxInt(60000), FxInt(300000)}

NoTaxes ==
    [done |-> {}, income_tax |-> <<NoTax, NoTax>>, nic |-> <<NoTax, NoTax>>,
     sdlt |-> <<NoTax, NoTax>>]

InitTax ==
    /\ amount \in AmountSet \X AmountSet
    /\ taxes = NoTaxes
    /\ conv = Unused /\ loan = Unused /\ widgets = Unused /\ out = Unused /\ edits = 0
    /\ session_state = Unused

ApplyIncomeTax ==
    /\ "income_tax" \notin taxes.done
    /\ taxes' = [taxes EXCEPT !.done = @ \cup {"income_tax"},
                              !.income_tax = <<compute_income_tax(amount[1]),
                                               compute_income_tax(amount[2])>>]
    /\ UNCHANGED <<amount, conv, loan, widgets, out, edits, session_state>>

ApplyNic ==
    /\ "nic" \notin taxes.done
    /\ taxes' = [taxes EXCEPT !.done = @ \cup {"nic"},
                              !.nic = <<compute_nic(amount[1]), compute_nic(amount[2])>>]
    /\ UNCHANGED <<amount, conv, loan, widgets, out, edits, session_state>>

ApplySdlt ==
    /\ "sdlt" \notin taxes.done
    /\ taxes' = [taxes EXCEPT !.done = @ \cup {"sdlt"},
                              !.sdlt = <<compute_sdlt(amount[1]), compute_sdlt(amount[2])>>]
    /\ UNCHANGED <<amount, conv, loan, widgets, out, edits, session_state>>

NextTax == ApplyIncomeTax \/ ApplyNic \/ ApplySdlt

SpecTax == InitTax /\ [][NextTax]_vars

(***************************************************************************)
(* The closed form the banded taxes are compared with, on fractions.       *)
(***************************************************************************)
MinUpper(x, high) == IF high = INF THEN x ELSE RMin(x, ToR(high))

\* rate * max(0, min(x, upper) - lower), summed over the bands from i on
RECURSIVE SlabSumFrom(_, _, _)
SlabSumFrom(bands, x, i) ==
    IF i > Len(bands) THEN RZero
    ELSE RAdd(RMul(RFrac(bands[i].rate, 100),
                   RMax(RZero, RSub(MinUpper(x, bands[i].high), ToR(bands[i].low)))),
              SlabSumFrom(bands, x, i + 1))

SlabSum(bands, x) == SlabSumFrom(bands, x, 1)

\* the bands below band i, each taxed in full
RECURSIVE FullBelow(_, _)
FullBelow(bands, i) ==
    IF i <= 1 THEN RZero
    ELSE RAdd(FullBelow(bands, i - 1),
              RMul(RFrac(bands[i - 1].rate, 100),
                   RSub(ToR(bands[i - 1].high), ToR(bands[i - 1].low))))

\* the three-band schedule the NIC is described by
NicSchedule == << Band(0, 12570, 0), Band(12570, 50270, 12), TopBand(50270, 2) >>

\* the amount x taxed by bands comes to t: the slab sum, nothing at 0, and at a
\* band's lower edge exactly the bands below it
IsSlabTax(bands, x, t) ==
    /\ REq(ToR(t), SlabSum(bands, ToR(x)))
    /\ x = FxZero => t = NoTax
    /\ \A i \in 1..Len(bands) : x = bands[i].low => REq(ToR(t), FullBelow(bands, i))

\* C1: for every amount >= 0 each of compute_income_tax, compute_nic and
\* compute_sdlt returns the closed-form slab sum over its schedule (for the NIC
\* the schedule 0% to 12570, 12% to 50270, 2% above): 0 at 0, an amount on a band
\* edge taxed wholly in the bands below the edge, income tax 11432 on 60000 and
\* transfer tax 5000 on 300000.
C1_SlabSum ==
    \A j \in 1..2 :
        /\ "income_tax" \in taxes.done =>
              /\ IsSlabTax(TAX_BANDS, amount[j], taxes.income_tax[j])
              /\ amount[j] = FxInt(60000) => taxes.income_tax[j] = FxCents(FxInt(11432))
        /\ "nic" \in taxes.done => IsSlabTax(NicSchedule, amount[j], taxes.nic[j])
        /\ "sdlt" \in taxes.done =>
              /\ IsSlabTax(SDLT_BANDS, amount[j], taxes.sdlt[j])
              /\ amount[j] = FxInt(300000) => taxes.sdlt[j] = FxCents(FxInt(5000))

\* all three taxes of 60000 and of the band edge 50270 computed, the first 11432
C1_Witness ==
    /\ taxes.done = {"income_tax", "nic", "sdlt"}
    /\ amount[1] = FxInt(60000) /\ amount[2] = FxInt(NIC_UEL)
    /\ taxes.income_tax[1] = FxCents(FxInt(11432))
    /\ taxes.income_tax[2] = FxCents(FxInt(7540)) /\ taxes.nic[2] = FxCents(FxInt(4524))

\* C6: for amounts 0 <= a1 <= a2, each of the three taxes of a1 is at most the
\* same tax of a2.
C6_Monotone ==
    FxLe(amount[1], amount[2]) =>
        /\ "income_tax" \in taxes.done => FxLe(taxes.income_tax[1], taxes.income_tax[2])
        /\ "nic" \in taxes.done => FxLe(taxes.nic[1], taxes.nic[2])
        /\ "sdlt" \in taxes.done => FxLe(taxes.sdlt[1], taxes.sdlt[2])

\* a1 just below the upper earnings limit and a2 just above it, taxes strictly apart
C6_Witness ==
    /\ taxes.done = {"income_tax", "nic", "sdlt"}
    /\ amount[1] = FxInt(NIC_UEL - 1) /\ amount[2] = FxInt(NIC_UEL + 1)
    /\ FxLt(taxes.income_tax[1], taxes.income_tax[2])
    /\ FxLt(taxes.nic[1], taxes.nic[2])

(***************************************************************************)
(* SpecConv: one call of net_to_gross, a pass of its loop at a time.  The  *)
(* target is either given or the net salary of a gross salary conv.gross   *)
(* (the round trip).                                                       *)
(***************************************************************************)
NoGross == NoFit

NoResult == [gross |-> NoFit, net |-> NoFit, tax |-> NoFit, nic |-> NoFit]

Million == FxInt(1000000)

\* the binary64 number next above 1000000
MillionUp == FxAdd(Million, FxDyad(1, 33))

GrossSet ==
    {FxDyad(1, 33), FxDyad(15625, 40), FxDyad(15625, 39), Half, FxInt(1),
     FxInt(NIC_PT), FxAdd(FxInt(NIC_PT), Half), FxInt(NIC_UEL), FxInt(60000),
     FxInt(125140), FxInt(999999), Million, FxInt(2000000)}

TargetSet == {RZero, RInt(36000), RFrac(438494, 10), RInt(545307), RInt(2000000)}

GuessLowSet == {FxZero, FxInt(20000)}

GuessHighSet == {Million, FxInt(2000000)}

Conv(gross, target_net, guess_low, guess_high) ==
    [gross |-> gross, target_net |-> target_net, guess_low |-> guess_low,
     guess_high |-> guess_high, low |-> guess_low, high |-> guess_high, i |-> 0,
     pc |-> IF gross = NoGross THEN "call" ELSE "net", result |-> NoResult]

InitConv ==
    /\ \/ \E g \in GrossSet, h \in GuessHighSet : conv = Conv(g, RZero, FxZero, h)
       \/ \E t \in TargetSet, l \in GuessLowSet, h \in GuessHighSet :
             conv = Conv(NoGross, t, l, h)
       \/ \E l \in GuessLowSet : conv = Conv(NoGross, RInt(2000000), l, MillionUp)
    /\ amount = Unused /\ taxes = Unused /\ loan = Unused /\ widgets = Unused
    /\ out = Unused /\ edits = 0
    /\ session_state = Unused

\* gross_to_net(g).net, handed to net_to_gross as its target
ToNet ==
    /\ conv.pc = "net"
    /\ conv' = [conv EXCEPT !.target_net = ToR(gross_to_net(conv.gross).net), !.pc = "call"]
    /\ UNCHANGED <<amount, taxes, loan, widgets, out, edits, session_state>>

\* low = guess_low; high = guess_high
Enter ==
    /\ conv.pc = "call"
    /\ conv' = [conv EXCEPT !.low = conv.guess_low, !.high = conv.guess_high, !.i = 0,
                            !.pc = "loop"]
    /\ UNCHANGED <<amount, taxes, loan, widgets, out, edits, session_state>>

Stepped(c, b) == [c EXCEPT !.low = b.low, !.high = b.high, !.i = @ + 1]

\* one pass of for _ in range(60)
Step ==
    /\ conv.pc = "loop" /\ conv.i < Iterations
    /\ conv' = Stepped(conv, bisect_step(conv.low, conv.high, conv.target_net))
    /\ UNCHANGED <<amount, taxes, loan, widgets, out, edits, session_state>>

\* the loop is over: gross = (low + high) / 2.0 and its net, tax and nic
Return ==
    /\ conv.pc = "loop" /\ conv.i = Iterations
    /\ conv' = [conv EXCEPT !.result = net_to_gross_result([low |-> conv.low,
                                                            high |-> conv.high]),
                            !.pc = "done"]
    /\ UNCHANGED <<amount, taxes, loan, widgets, out, edits, session_state>>

NextConv == ToNet \/ Enter \/ Step \/ Return

SpecConv == InitConv /\ [][NextConv]_vars

RoundTrip == conv.gross # NoGross

Searching == conv.pc \in {"loop", "done"}

\* x lies within 0.01% of g
Within(x, g) == RLe(RMul(RInt(10000), Abs(RSub(ToR(x), ToR(g)))), ToR(g))

\* 0 < g <= the upper search bound, the lower bound 0
RoundTripDomain ==
    /\ RoundTrip /\ conv.guess_low = FxZero
    /\ FxLt(FxZero, conv.gross) /\ FxLe(conv.gross, conv.guess_high)

\* the statement of C2 as it stands: the round trip of every gross g with
\* 0 < g <= guess_high (guess_low = 0) ends within 0.01% of g.
C2_AnyGross ==
    (RoundTripDomain /\ conv.pc = "done") => Within(conv.result.gross, conv.gross)

\* C2: for every gross g with guess_high / 2^46 <= g <= guess_high (guess_low =
\* 0), net_to_gross(gross_to_net(g).net) returns a gross within 0.01% of g;
\* gross_to_net being strictly increasing, the search keeps g in (low, high] and
\* the target net in (net of low, net of high].
C2_RoundTrip ==
    (RoundTripDomain /\ RLe(ToR(conv.guess_high), RMul(ToR(conv.gross), RDyad(1, 46)))) =>
        /\ Searching =>
              /\ FxLt(conv.low, conv.gross) /\ FxLe(conv.gross, conv.high)
              /\ RLt(ToR(gross_to_net(conv.low).net), conv.target_net)
              /\ RLe(conv.target_net, ToR(gross_to_net(conv.high).net))
        /\ conv.pc = "done" => Within(conv.result.gross, conv.gross)

\* the round trip of the smallest gross of the domain, 1000000 / 2^46, has ended
\* near it but not on it
C2_Witness ==
    /\ conv.pc = "done" /\ conv.gross = FxDyad(15625, 40) /\ conv.guess_high = Million
    /\ conv.result.gross # conv.gross
    /\ Within(conv.result.gross, conv.gross)

\* the unit in the last place of the binary64 number x
FxUlp(x) ==
    IF FxBitLen(x) <= 53 THEN FxDyad(1, FracBits)
    ELSE FxShifted(1, (FxBitLen(x) - 53) % 24, (FxBitLen(x) - 53) \div 24)

\* the 53-bit significand of the binary64 number x is even
FxEvenSignificand(x) ==
    \/ FxBitLen(x) < 53
    \/ FxBitLen(x) - 53 < 24 /\ (x.a0 \div 2^(FxBitLen(x) - 53)) % 2 = 0
    \/ FxBitLen(x) - 53 >= 24 /\ (x.a1 \div 2^(FxBitLen(x) - 77)) % 2 = 0

\* the target exceeds the net salary at the ends and the middle of the range
\* (and so, the net salary increasing with the gross, everywhere in it)
Saturated ==
    /\ RLt(ToR(gross_to_net(conv.guess_high).net), conv.target_net)
    /\ RLt(ToR(gross_to_net(conv.guess_low).net), conv.target_net)
    /\ RLt(ToR(gross_to_net(midpoint(conv.guess_low, conv.guess_high)).net),
           conv.target_net)

InBounds ==
    /\ conv.low # NoFit /\ conv.high # NoFit
    /\ FxLe(conv.guess_low, conv.low) /\ FxLe(conv.low, conv.high)
    /\ FxLe(conv.high, conv.guess_high)

MaxYears == 2

PrincipalSet == {RFrac(1, 2), RInt(1), RInt(1200), RInt(100000), RInt(255000)}

RateSet == {RZero, RFrac(1, 10), RFrac(7, 2), RInt(5), RInt(12)}

InitLoan ==
    /\ \E p \in PrincipalSet, a \in RateSet, y \in 1..MaxYears :
          loan = [principal |-> p, annual_rate_percent |-> a, years |-> y,
                  payment |-> RZero, back |-> RZero, pc |-> "start"]
    /\ amount = Unused /\ taxes = Unused /\ conv = Unused /\ widgets = Unused
    /\ out = Unused /\ edits = 0
    /\ session_state = Unused

Pay ==
    /\ loan.pc = "start"
    /\ loan' = [loan EXCEPT !.payment = monthly_payment(loan.principal,
                                                        loan.annual_rate_percent,
                                                        loan.years),
                            !.pc = "paid"]
    /\ UNCHANGED <<amount, taxes, conv, widgets, out, edits, session_state>>

Invert ==
    /\ loan.pc = "paid" /\ ~IsRaised(loan.payment)
    /\ loan' = [loan EXCEPT !.back = max_principal(loan.payment,
                                                   monthly_rate(loan.annual_rate_percent),
                                                   loan.years * 12),
                            !.pc = "inverted"]
    /\ UNCHANGED <<amount, taxes, conv, widgets, out, edits, session_state>>

NextLoan == Pay \/ Invert

SpecLoan == InitLoan /\ [][NextLoan]_vars

MaxEdits == 3

DefaultTerm == IF 25 <= MaxYears THEN 25 ELSE MaxYears

Defaults ==
    [mode |-> "House", calc_type |-> "Salary Projection", price |-> 300000,
     deposit_pct |-> 15, deposit_amt |-> 0, term_years |-> DefaultTerm,
     interest_rate |-> RInt(5), arrangement_fee |-> 1500, monthly_overheads |-> 500,
     monthly_expenses |-> 1000, lti |-> RFrac(9, 2), net_monthly_salary |-> 3000,
     effective_tax_rate |-> 35, show_sdlt |-> TRUE, stress_rate_shift |-> RInt(2),
     maintenance_pct |-> RInt(1), insurance_monthly |-> 50]

CalcTypes == {"Salary Projection", "Affordability"}
PriceSet == {300000, 0}
DepositPctSet == {15, 50}
DepositAmtSet == {0, 45000}
TermSet == 1..MaxYears
InterestRateSet == {RInt(5), RZero}
StressShiftSet == {RInt(2), RInt(-2400)}
MaintenancePctSet == {RInt(1), RZero}
LtiSet == {RFrac(9, 2), RInt(1)}
ExpensesSet == {1000, 0, 3000}

Init ==
    /\ widgets = Defaults
    /\ out = Script(Defaults)
    /\ edits = 0
    /\ session_state = session_init(NewSession)
    /\ amount = Unused /\ taxes = Unused /\ conv = Unused /\ loan = Unused

\* the widgets of a page that is shown take the values w and the script runs
\* again, no button pressed
Rerun(w) ==
    /\ edits < MaxEdits
    /\ "scenarios" \in DOMAIN session_state
    /\ w # widgets
    /\ widgets' = w
    /\ out' = Script(w)
    /\ session_state' = SaveButton(out', session_init(session_state), FALSE)
    /\ edits' = edits + 1
    /\ UNCHANGED <<amount, taxes, conv, loan>>

SetCalcType == \E v \in CalcTypes : Rerun([widgets EXCEPT !.calc_type = v])
SetPrice == \E v \in PriceSet : Rerun([widgets EXCEPT !.price = v])
SetDepositPct == \E v \in DepositPctSet : Rerun([widgets EXCEPT !.deposit_pct = v])
SetDepositAmt == \E v \in DepositAmtSet : Rerun([widgets EXCEPT !.deposit_amt = v])
SetTermYears == \E v \in TermSet : Rerun([widgets EXCEPT !.term_years = v])
SetInterestRate == \E v \in InterestRateSet : Rerun([widgets EXCEPT !.interest_rate = v])
SetStressRateShift ==
    \E v \in StressShiftSet : Rerun([widgets EXCEPT !.stress_rate_shift = v])
SetMaintenancePct ==
    \E v \in MaintenancePctSet : Rerun([widgets EXCEPT !.maintenance_pct = v])
SetLti == \E v \in LtiSet : Rerun([widgets EXCEPT !.lti = v])
SetMonthlyExpenses ==
    \E v \in ExpensesSet : Rerun([widgets EXCEPT !.monthly_expenses = v])

Next ==
    \/ SetCalcType \/ SetPrice \/ SetDepositPct \/ SetDepositAmt \/ SetTermYears
    \/ SetInterestRate \/ SetStressRateShift \/ SetMaintenancePct \/ SetLti
    \/ SetMonthlyExpenses

Spec == Init /\ [][Next]_vars

\* the latest run ended without an error
Ran == out.raised = ""

SalaryRun == Ran /\ widgets.calc_type = "Salary Projection"

AffordabilityRun == Ran /\ widgets.calc_type = "Affordability"

\* overheads, expenses, maintenance and insurance of a month
RecurringCosts ==
    RAdd(RAdd(RInt(widgets.monthly_overheads), RInt(widgets.monthly_expenses)),
         RAdd(out.monthly_maintenance, RInt(widgets.insurance_monthly)))

\* C3: in a Salary Projection run gross_needed is the maximum of gross_by_lti =
\* loan_amount / lti and gross_by_afford, the gross that net_to_gross returns
\* for the target net 12 * (monthly_pay + recurring monthly costs); it is below
\* neither, and both are returned in sp.
C3_GrossNeeded ==
    SalaryRun =>
        /\ {"gross_by_lti", "gross_by_afford"} \subseteq DOMAIN out.sp
        /\ RLe(out.sp.gross_by_lti, out.gross_needed)
        /\ RLe(out.sp.gross_by_afford, out.gross_needed)
        /\ \/ REq(out.gross_needed, out.sp.gross_by_lti)
           \/ REq(out.gross_needed, out.sp.gross_by_afford)
        /\ REq(RMul(out.sp.gross_by_lti, widgets.lti), out.loan_amount)
        /\ REq(out.sp.gross_by_afford,
               ToR(net_to_gross(RMul(RInt(12), RAdd(out.monthly_pay, RecurringCosts)),
                                FxZero, FxInt(2000000)).gross))

\* lti 1 and no other expenses: the loan-to-income estimate, 255000, is the
\* larger of the two and is the gross needed
C3_Witness ==
    /\ SalaryRun /\ widgets.lti = RInt(1) /\ widgets.monthly_expenses = 0
    /\ REq(out.sp.gross_by_lti, RInt(255000))
    /\ RLt(out.sp.gross_by_afford, out.sp.gross_by_lti)
    /\ REq(out.gross_needed, out.sp.gross_by_lti)

\* C4: in an Affordability run mortgage_affordable is the minimum of gross_annual
\* * lti and mortgage_by_payment, mortgage_by_payment >= 0, and price_affordable
\* is mortgage_affordable + deposit_amt when deposit_amt > 0, otherwise
\* mortgage_affordable / (1 - deposit_pct / 100) for deposit_pct < 100, whatever
\* the target price, so that mortgage_affordable = price_affordable *
\* (1 - deposit_pct / 100).
C4_Affordable ==
    AffordabilityRun =>
        /\ RLe(RZero, out.ap.mortgage_by_payment)
        /\ RLe(out.ap.mortgage_affordable, RMul(out.ap.gross_annual, widgets.lti))
        /\ RLe(out.ap.mortgage_affordable, out.ap.mortgage_by_payment)
        /\ \/ REq(out.ap.mortgage_affordable, RMul(out.ap.gross_annual, widgets.lti))
           \/ REq(out.ap.mortgage_affordable, out.ap.mortgage_by_payment)
        /\ widgets.deposit_amt > 0 =>
              REq(out.ap.price_affordable,
                  RAdd(out.ap.mortgage_affordable, RInt(widgets.deposit_amt)))
        /\ (widgets.deposit_amt <= 0 /\ widgets.deposit_pct < 100) =>
              /\ REq(out.ap.price_affordable,
                     RDiv(out.ap.mortgage_affordable,
                          RFrac(100 - widgets.deposit_pct, 100)))
              /\ REq(RMul(out.ap.price_affordable, RFrac(100 - widgets.deposit_pct, 100)),
                     out.ap.mortgage_affordable)

\* lti 1 and no other expenses, deposit by percentage: the loan-to-income cap is
\* the smaller one, and the price lies above the mortgage
C4_Witness ==
    /\ AffordabilityRun /\ widgets.lti = RInt(1) /\ widgets.monthly_expenses = 0
    /\ widgets.deposit_amt = 0
    /\ RLt(out.ap.mortgage_by_lti, out.ap.mortgage_by_payment)
    /\ REq(out.ap.mortgage_affordable, out.ap.mortgage_by_lti)
    /\ RLt(out.ap.mortgage_affordable, out.ap.price_affordable)

\* C8: no numeric input makes monthly_payment, salary_projection_methods or
\* affordability_projection_methods raise a division by zero or another error:
\* every run of the script ends without one.
C8_NeverRaises == Ran

\* the names a, all bound by both runs, have equal values in o1 and o2
SameIn(o1, o2, names) == \A a \in names : REq(o1[a], o2[a])

\* the run with maintenance_pct = m and the other inputs as they are
WithMaintenance(m) == Script([widgets EXCEPT !.maintenance_pct = m])

\* the statement of C9 as it stands: two runs whose inputs differ only in
\* maintenance_pct agree on gross_by_lti, gross_by_afford and gross_needed, and on
\* available_for_mortgage_monthly, mortgage_by_payment, mortgage_affordable and
\* price_affordable.
C9_NotFedBack ==
    \A m \in MaintenancePctSet :
        /\ SalaryRun =>
              /\ SameIn(out.sp, WithMaintenance(m).sp, {"gross_by_lti", "gross_by_afford"})
              /\ SameIn(out, WithMaintenance(m), {"gross_needed"})
        /\ AffordabilityRun =>
              SameIn(out.ap, WithMaintenance(m).ap,
                     {"available_for_mortgage_monthly", "mortgage_by_payment",
                      "mortgage_affordable", "price_affordable"})

\* C9: the annual-maintenance estimate is price * maintenance_pct / 100, and a
\* twelfth of it is fed back into affordability: it is added into
\* required_net_monthly (whence gross_by_afford and gross_needed) and taken off
\* available_for_mortgage_monthly (whence mortgage_by_payment,
\* mortgage_affordable and price_affordable).  Two runs whose inputs differ only
\* in maintenance_pct agree on loan_amount, monthly_pay, gross_by_lti,
\* gross_annual and mortgage_by_lti.
C9_FedBack ==
    Ran =>
        /\ REq(out.annual_maintenance,
               RDiv(RMul(RInt(widgets.price), widgets.maintenance_pct), RInt(100)))
        /\ REq(RMul(out.monthly_maintenance, RInt(12)), out.annual_maintenance)
        /\ SalaryRun =>
              REq(out.sp.required_net_monthly, RAdd(out.monthly_pay, RecurringCosts))
        /\ AffordabilityRun =>
              REq(out.ap.available_for_mortgage_monthly,
                  RMax(RZero, RSub(RInt(widgets.net_monthly_salary), RecurringCosts)))
        /\ \A m \in MaintenancePctSet :
              /\ SameIn(out, WithMaintenance(m), {"loan_amount", "monthly_pay"})
              /\ SalaryRun => SameIn(out.sp, WithMaintenance(m).sp, {"gross_by_lti"})
              /\ AffordabilityRun =>
                    SameIn(out.ap, WithMaintenance(m).ap, {"gross_annual", "mortgage_by_lti"})

\* a run with no maintenance on a price of 300000: against the run with 1%, the
\* loan-to-income estimate is the same and the affordability estimate is lower
C9_Witness ==
    /\ SalaryRun /\ widgets.maintenance_pct = RZero /\ widgets.price = 300000
    /\ REq(out.sp.gross_by_lti, WithMaintenance(RInt(1)).sp.gross_by_lti)
    /\ RLt(out.sp.gross_by_afford, WithMaintenance(RInt(1)).sp.gross_by_afford)
    /\ RLt(out.gross_needed, WithMaintenance(RInt(1)).gross_needed)

\* the run with deposit_pct = p and the other inputs as they are
WithDepositPct(p) == Script([widgets EXCEPT !.deposit_pct = p])

\* C10: whenever deposit_amt > 0 the deposit is deposit_amt, and the loan amount,
\* the monthly payment, the gross needed and the affordable price are the same
\* for every deposit_pct; only when deposit_amt is not > 0 is the deposit
\* price * deposit_pct / 100.
C10_DepositOverride ==
    /\ widgets.deposit_amt > 0 =>
          /\ REq(out.deposit, RInt(widgets.deposit_amt))
          /\ \A p \in DepositPctSet :
                /\ SameIn(out, WithDepositPct(p), {"loan_amount", "monthly_pay"})
                /\ SalaryRun => SameIn(out, WithDepositPct(p), {"gross_needed"})
                /\ AffordabilityRun =>
                      SameIn(out.ap, WithDepositPct(p).ap, {"price_affordable"})
    /\ ~(widgets.deposit_amt > 0) =>
          REq(out.deposit, RDiv(RInt(widgets.price * widgets.deposit_pct), RInt(100)))

\* a deposit of 45000 given and the percentage moved to 50: the deposit is
\* 45000 and the loan 255000, not the 150000 of a half deposit
C10_Witness ==
    /\ Ran /\ widgets.deposit_amt = 45000 /\ widgets.deposit_pct = 50
    /\ widgets.price = 300000
    /\ REq(out.deposit, RInt(45000)) /\ REq(out.loan_amount, RInt(255000))

(***************************************************************************)
(* SpecSession: a session of the page.  The session begins with nothing    *)
(* stored; the script runs when the page opens, when a widget is changed   *)
(* and when a Save scenario button is pressed, a button being there to     *)
(* press only if the latest run came to draw it.                           *)
(***************************************************************************)
\* at most MaxScenarios scenarios are saved
MaxScenarios == 2

\* no run has been made yet
NotRun == [raised |-> "not run"]

InitSession ==
    /\ widgets = Defaults
    /\ out = NotRun
    /\ edits = 0
    /\ session_state = NewSession
    /\ amount = Unused /\ taxes = Unused /\ conv = Unused /\ loan = Unused

\* the page opens: the first run of the script in the session
OpenPage ==
    /\ "scenarios" \notin DOMAIN session_state
    /\ out' = Script(widgets)
    /\ session_state' = SaveButton(out', session_init(session_state), FALSE)
    /\ UNCHANGED <<amount, taxes, conv, loan, widgets, edits>>

\* the Save scenario button is pressed: the script runs again with the same
\* values of the widgets, and st.button returns True
PressSave ==
    /\ "scenarios" \in DOMAIN session_state
    /\ out.raised = ""
    /\ Len(session_state.scenarios) < MaxScenarios
    /\ out' = Script(widgets)
    /\ session_state' = SaveButton(out', session_init(session_state), TRUE)
    /\ UNCHANGED <<amount, taxes, conv, loan, widgets, edits>>

NextSession ==
    \/ OpenPage
    \/ SetCalcType \/ SetPrice \/ SetInterestRate \/ SetStressRateShift
    \/ PressSave

SpecSession == InitSession /\ [][NextSession]_vars

\* the list a is the beginning of the list b
IsPrefix(a, b) == Len(a) <= Len(b) /\ \A i \in 1..Len(a) : a[i] = b[i]

\* what a step does to the list of scenarios
ScenarioStep(old, new) ==
    /\ IsPrefix(old, new)
    /\ Len(new) <= Len(old) + 1
    /\ widgets' # widgets => new = old
    /\ PressSave => Len(new) = Len(old) + 1
    /\ Len(new) = Len(old) + 1 => new[Len(new)] = scenario(out')

\* C11: across every sequence of runs of the script and presses of a Save
\* button the list of scenarios is append-only: a run sets it to the empty list
\* only when the session holds none, a press of a Save button adds exactly one
\* entry, the scenario of that run, at the end, the entries there before are
\* neither changed nor reordered nor removed, a run without a press leaves the
\* list as it is, and the results of the calculation are those of the widgets'
\* values whatever the list holds.
C11_AppendOnly ==
    [][/\ "scenarios" \in DOMAIN session_state'
       /\ "scenarios" \notin DOMAIN session_state => session_state'.scenarios = <<>>
       /\ "scenarios" \in DOMAIN session_state =>
             ScenarioStep(session_state.scenarios, session_state'.scenarios)
       /\ out' = Script(widgets')]_vars

\* a Salary Projection scenario saved, the calculation type changed, and an
\* Affordability scenario saved after it
C11_Witness ==
    /\ "scenarios" \in DOMAIN session_state
    /\ Len(session_state.scenarios) = 2
    /\ session_state.scenarios[1].type = "Salary Projection"
    /\ session_state.scenarios[2].type = "Affordability"
    /\ widgets.calc_type = "Affordability" /\ out.raised = ""
    /\ session_state.scenarios[2] = scenario(out)

====
